---- MODULE Spec2Model ----
(***************************************************************************)
(* SnorkTracker: the control loop of tracker.ino (setup() and loop()), its *)
(* log and wait hooks (myDebugInfo, myDelayLoop, yield) and the helpers of *)
(* Utils.h (elapsed time, interval codec, crc32, MyDelay).                 *)
(*                                                                         *)
(* loop() is modelled statement by statement: pc names the next statement  *)
(* of loop() to execute, call names the collaborator call in progress (a   *)
(* call to a collaborator takes two steps, entry and return, so that the   *)
(* states inside the call are states of the model), and trace lists the    *)
(* calls made so far in the current tick.                                  *)
(*                                                                         *)
(* The collaborators (GsmPower.h, GsmGps.h, SmsCmd.h, Mqtt.h, DeepSleep.h, *)
(* WebServer.h, Options.h, Data.h) are modelled from their interface: each *)
(* one changes only its own state, nondeterministically.                   *)
(***************************************************************************)
EXTENDS Integers, Sequences, FiniteSets, TLC

(* Bounds of the model. *)
MaxCmds     == 2    \* console commands that can be queued at once
MaxSec      == 3    \* largest value of secondsSincePowerOn()
MaxInterval == 2    \* largest intervalSec passed to the elapsed-time helpers
MaxPlainSecs == 130 \* formatInterval is given every secs from 0 up to this
MaxBytes    == 2    \* longest buffer of arbitrary bytes given to crc32
MaxCalls    == 3    \* calls of myDebugInfo
MaxDelay    == 3    \* longest wait asked of MyDelay, in milliseconds
MaxOta      == 1    \* callbacks ArduinoOTA runs between two restarts

VARIABLES
    gsmHasPower,    \* tracker.ino:65
    isStarting,     \* tracker.ino:66
    isStopping,     \* tracker.ino:67
    gsmPower,       \* myOptions.gsmPower
    isSmsEnabled,   \* myOptions.isSmsEnabled
    isMqttEnabled,  \* myOptions.isMqttEnabled
    consoleCmds,    \* myData.consoleCmds
    railOn,         \* state of the DC-DC module switched by myGsmPower
    isGsmActive,    \* myGsmGps.isGsmActive
    gpsPending,     \* what myGsmGps.waitingForGps() returns
    mqttPending,    \* what myMqtt.waitingForMqtt() returns
    wifiOn,         \* local wireless networking
    pc,             \* next statement of setup()/loop()
    call,           \* collaborator call in progress, "none" between calls
    trace,          \* calls made so far in the current tick
    gpsSeen,        \* last value returned by waitingForGps() at line 206
    sleepSeen,      \* values read by the sleep evaluation of this tick
    beginOk,        \* has myGsmGps.begin() ever returned true?
    evalSeen,       \* the conditions of lines 175, 190, 201 as evaluated in
                    \* this tick
    currentSec,     \* secondsSincePowerOn()
    lastCheckSec,   \* the caller's lastCheckSec variable
    intervalSec,    \* the caller's intervalSec
    elapsedOp,      \* elapsed-time helper called by the last step, or "none"
    elapsedRet,     \* its return value
    elapsedArmed,   \* was the step before it a secondsElapsedAndUpdate
                    \* that returned true?
    codPc,          \* interval codec: next call ("format", "scan", "done")
    codSecs,        \* the secs argument of formatInterval
    codText,        \* the text formatInterval returned / scanInterval is given
    codOut,         \* the variable passed by reference to scanInterval
    codOld,         \* its value before the call
    codRet,         \* what scanInterval returned
    codParts,       \* the fields the scanned text was written from
    crcPc,          \* checksum: next call ("whole", "first", "second", "done")
    crcLong,        \* number of bits of a long in this build
    crcBuf,         \* the bytes to checksum
    crcCut,         \* how many of them the first of two chained calls is given
    crcWhole,       \* crc32(0, crcBuf, Len(crcBuf))
    crcFirst,       \* crc32(0, crcBuf, crcCut)
    crcChain,       \* crc32(crcFirst, crcBuf + crcCut, Len(crcBuf) - crcCut)
    crcAt,          \* position in crc32: "enter" or "loop"
    crcAcc,         \* the crc variable of crc32
    crcLeft,        \* the bytes from buf on that len still counts
    logInfos,       \* myData.logInfos, a list of lines
    lastNewLine,    \* tracker.ino:86
    logOld,         \* logInfos before the last call of myDebugInfo
    logArgs,        \* the last call of myDebugInfo, and what the call before
                    \* it passed as newline
    dlyPc,          \* next statement of MyDelay
    dlyD,           \* MyDelay: millisDelay
    dlyM,           \* MyDelay: m
    dlyMillis,      \* millis(), as far as the delay(1) of MyDelay,
                    \* myDelayLoop and myDebugInfo advance it (the delay(10)
                    \* that ends a tick is recorded in trace)
    dlyServed,      \* handleClient() calls since the last test of line 108
    dlyFed,         \* ESP.wdtFeed() calls of MyDelay, myDelayLoop and
                    \* myDebugInfo since the last test of line 108, or
                    \* since the restart
    dlyIter,        \* passes of the loop of MyDelay made by this call
    isOtaActive,    \* myData.isOtaActive
    otaRuns,        \* callbacks ArduinoOTA has run since the restart
    otaTodo,        \* the error of the onError callback that has logged its
                    \* first line and not yet its second, or nothing
    dbgPc           \* myDebugInfo: "wait" in the delay(1) of line 109,
                    \* "idle" outside

prog  == <<gsmHasPower, isStarting, isStopping>>
opts  == <<gsmPower, isSmsEnabled, isMqttEnabled>>
gsm   == <<isGsmActive, gpsPending>>
env   == <<railOn, mqttPending, wifiOn, consoleCmds>>
ghost == <<gpsSeen, sleepSeen, beginOk, evalSeen>>
deb   == <<currentSec, lastCheckSec, intervalSec, elapsedOp, elapsedRet, elapsedArmed>>
cod   == <<codPc, codSecs, codText, codOut, codOld, codRet, codParts>>
loopVars == <<prog, opts, gsm, env, ghost, pc, call, trace>>
crcv  == <<crcPc, crcLong, crcBuf, crcCut, crcWhole, crcFirst, crcChain,
           crcAt, crcAcc, crcLeft>>
logv  == <<logInfos, lastNewLine, logOld, logArgs, dbgPc>>
dly   == <<dlyPc, dlyD, dlyM, dlyMillis, dlyServed, dlyFed, dlyIter>>
otav  == <<isOtaActive, otaRuns, otaTodo>>
util  == <<deb, cod, crcv, logv, dly, otav>>
notDeb == <<loopVars, cod, crcv, logv, dly, otav>>
notCod == <<loopVars, deb, crcv, logv, dly, otav>>
notCrc == <<loopVars, deb, cod, logv, dly, otav>>
(* What a call of the web server's handleClient() leaves alone in loop(). *)
held  == <<prog, gsm, railOn, mqttPending, wifiOn, ghost, pc, call, trace>>
vars  == <<prog, opts, gsm, env, ghost, util, pc, call, trace>>

Cmds == {"AT"}

NoRead == [gps |-> FALSE, mqtt |-> FALSE, sleep |-> FALSE, done |-> FALSE]

(* Nothing evaluated yet in this tick. *)
NoEval == [start |-> FALSE, stop |-> FALSE, ready |-> FALSE]

(***************************************************************************)
(* Control helpers.                                                        *)
(***************************************************************************)

(* No call of myDebugInfo is waiting and no callback is under way: the
   statement that made the call goes on. *)
Idle == dbgPc = "idle" /\ otaTodo = <<>>

(* A statement that is not a collaborator call (or a query): one step. *)
Goto(here, there) ==
    /\ pc = here
    /\ call = "none"
    /\ Idle
    /\ pc' = there

(* Entry of a collaborator call made by the statement at here. *)
Enter(here, op) ==
    /\ pc = here
    /\ call = "none"
    /\ Idle
    /\ call' = op
    /\ trace' = Append(trace, op)
    /\ pc' = pc

(* Return of the collaborator call made by the statement at here. *)
Return(here, op, there) ==
    /\ pc = here
    /\ call = op
    /\ Idle
    /\ call' = "none"
    /\ pc' = there
    /\ trace' = trace

(***************************************************************************)
(* Collaborators.                                                          *)
(***************************************************************************)

(* MyOptions: the web pages and SMS commands may rewrite the options. *)
OptionsChange ==
    /\ gsmPower' \in BOOLEAN
    /\ isSmsEnabled' \in BOOLEAN
    /\ isMqttEnabled' \in BOOLEAN

(* MyGsmPower::on / off *)
GsmPowerOn  == railOn' = TRUE
GsmPowerOff == railOn' = FALSE

(* MyGsmGps::begin: ok is the return value. A failed begin may leave the
   session half set up. *)
GsmBegin(ok) ==
    /\ isGsmActive' \in (IF ok THEN {TRUE} ELSE BOOLEAN)
    /\ gpsPending' \in BOOLEAN

(* MyGsmGps::stop *)
GsmStop ==
    /\ isGsmActive' = FALSE
    /\ gpsPending' \in BOOLEAN

(* MyGsmGps::handleClient: advances the session one step. *)
GsmHandleClient ==
    /\ isGsmActive' \in BOOLEAN
    /\ gpsPending' \in BOOLEAN

(* MyMqtt::handleClient *)
MqttHandleClient == mqttPending' \in BOOLEAN

(* MyWebServer::handleClient: may rewrite the options and queue console
   commands typed in the web console. Every collaborator call that waits
   with MyDelay or logs with MyDbg services the web server while it runs
   (tracker.ino:104-108, 116-118), so the call's return applies it too. *)
WebHandleClient ==
    /\ OptionsChange
    /\ \E n \in 0 .. (MaxCmds - Len(consoleCmds)) : \E c \in Cmds :
          consoleCmds' = consoleCmds \o [i \in 1 .. n |-> c]

(***************************************************************************)
(* Utils.h: text. A String is a sequence of one-character strings.         *)
(***************************************************************************)
DigitChars == <<"0", "1", "2", "3", "4", "5", "6", "7", "8", "9">>

IsDigit(c) == \E d \in 1 .. 10 : DigitChars[d] = c

DigitVal(c) == (CHOOSE d \in 1 .. 10 : DigitChars[d] = c) - 1

(* Division and remainder of C: the quotient is truncated towards zero. *)
CDiv(a, b) == IF a >= 0 THEN a \div b ELSE -((-a) \div b)
CRem(a, b) == a - b * CDiv(a, b)

(* The decimal digits of n >= 0, as sprintf("%d") and String(long) write
   them. *)
RECURSIVE Digits(_)
Digits(n) == IF n < 10 THEN <<DigitChars[n + 1]>>
             ELSE Digits(n \div 10) \o <<DigitChars[(n % 10) + 1]>>

(* sprintf("%d", n) *)
FormatD(n) == IF n < 0 THEN <<"-">> \o Digits(-n) ELSE Digits(n)

(* sprintf("%02d", n): at least two characters, padded with zeros *)
Format02D(n) == IF n >= 0 /\ n < 10 THEN <<"0">> \o Digits(n) ELSE FormatD(n)

(***************************************************************************)
(* tracker.ino:84-111 and Utils.h:94-97, 264-289: the console log.         *)
(***************************************************************************)

(* No call yet. *)
NoCall == [n |-> 0, info |-> <<>>, newline |-> FALSE, secs |-> 0, prev |-> FALSE]

(* StringList::addTail *)
AddTail(list, line) == Append(list, line)

(* StringList::removeTail: the line removed, and the list without it. *)
TailLine(list) == IF list = <<>> THEN <<>> ELSE list[Len(list)]
TailRemoved(list) == IF list = <<>> THEN <<>> ELSE SubSeq(list, 1, Len(list) - 1)

(* Mutant of NewLineWanted: only newline is looked at. *)
NewLineWantedStrict(newline, last) == newline

(* 88: if (newline || lastNewLine != newline) *)
NewLineWanted(newline, last) == newline \/ last # newline

(* 89: String(secondsSincePowerOn()) + F(": ") *)
Stamp(sec) == FormatD(sec) \o <<":", " ">>

(* 88-100: the list after myDebugInfo(info, ., newline) at the second sec,
   where lastNewLine is last *)
Logged(list, last, info, newline, sec) ==
    IF NewLineWanted(newline, last)
    THEN AddTail(list, Stamp(sec) \o info)
    ELSE AddTail(TailRemoved(list), TailLine(list) \o info)

(* 84-108: myDebugInfo(info, fromWebserver, newline) up to the delay(1) of
   line 109, in which it then waits.  The three calls of handleClient of
   lines 104-108 are one change of what the web server may change. *)
DebugInfo(info, fromWebserver, newline) ==
    /\ dbgPc = "idle"
    /\ logInfos' = Logged(logInfos, lastNewLine, info, newline, currentSec)
    /\ lastNewLine' = newline
    /\ IF fromWebserver THEN UNCHANGED <<opts, consoleCmds>> ELSE WebHandleClient
    /\ logOld' = logInfos
    /\ logArgs' = [n |-> logArgs.n + 1, info |-> info, newline |-> newline,
                   secs |-> currentSec, prev |-> logArgs.newline]
    /\ dbgPc' = "wait"

(* Utils.h:94-97: MyDbg(info), fromWebServer = false and newline = true *)
MyDbg(info) == DebugInfo(info, FALSE, TRUE)

(* tracker.ino:134 *)
StartText == <<"S", "t", "a", "r", "t", " ", "S", "n", "o", "r", "k", "T", "r",
      "a", "c", "k", "e", "r", " ", ".", ".", ".">>

(* Utils.h:266, 273, 276, 279, 282 *)
StartOtaText    == <<"S", "t", "a", "r", "t", "O", "T", "A">>
OtaStartText    == <<"O", "T", "A", " ", "S", "t", "a", "r", "t">>
OtaEndText      == <<"\n", "O", "T", "A", " ", "E", "n", "d">>
OtaProgressText == <<"O", "T", "A", " ", "P", "r", "o", "g", "r", "e", "s", "s", ":", " ">>
OtaErrorText    == <<"O", "T", "A", " ", "E", "r", "r", "o", "r", "[", "%", "u", "]",
      ":", " ">>

(* ota_error_t: OTA_AUTH_ERROR, OTA_BEGIN_ERROR, OTA_CONNECT_ERROR,
   OTA_RECEIVE_ERROR, OTA_END_ERROR, numbered from 0 *)
OtaErrors == 0 .. 4

(* Utils.h:283-287, by error + 1 *)
OtaFailedText ==
    <<<<"O", "T", "A", " ", "A", "u", "t", "h", " ", "F", "a", "i", "l",
      "e", "d">>,
      <<"O", "T", "A", " ", "B", "e", "g", "i", "n", " ", "F", "a", "i",
      "l", "e", "d">>,
      <<"O", "T", "A", " ", "C", "o", "n", "n", "e", "c", "t", " ", "F",
      "a", "i", "l", "e", "d">>,
      <<"O", "T", "A", " ", "R", "e", "c", "e", "i", "v", "e", " ", "F",
      "a", "i", "l", "e", "d">>,
      <<"O", "T", "A", " ", "E", "n", "d", " ", "F", "a", "i", "l", "e", "d">>>>

(* The progress and the size ArduinoOTA reports of an upload: half of it,
   all of it; the size is not a multiple of 100, so the last report reads
   125. *)
OtaProgresses == {[progress |-> 125, total |-> 250], [progress |-> 250, total |-> 250]}

(* Utils.h:264-289: SetupOTA().  The callbacks it registers are the
   operators below, run by ArduinoOTA.handle(). *)
SetupOTA == MyDbg(StartOtaText)

(* Utils.h:272-274 *)
OnStart == MyDbg(OtaStartText)

(* Utils.h:275-277 *)
OnEnd == MyDbg(OtaEndText)

(* Utils.h:278-280: progress / (total / 100) in unsigned int *)
OnProgress(progress, total) ==
    MyDbg(OtaProgressText \o Digits(progress \div (total \div 100)))

(* Utils.h:281-282.  "OTA Error[%u]: " + error adds error to the address of
   the literal: the text logged is the literal without its first error
   characters.  The callback goes on at line 283 after the wait. *)
OnError(error) ==
    /\ MyDbg(SubSeq(OtaErrorText, error + 1, Len(OtaErrorText)))
    /\ otaTodo' = <<error>>

(* Utils.h:283-287: the second line of onError *)
OnErrorFailed ==
    /\ otaTodo # <<>>
    /\ MyDbg(OtaFailedText[Head(otaTodo) + 1])
    /\ otaTodo' = <<>>

(***************************************************************************)
(* setup(), tracker.ino:131-146. Also the entry point after a deep sleep.  *)
(***************************************************************************)
(* 134: MyDbg logs and waits.  136-145: myOptions.load() (138) reads the
   stored options, which are whatever was stored; the begin() calls set up
   collaborators that are in the state they are constructed in. *)
Setup ==
    \/ /\ Goto("setup", "setupBegin")
       /\ trace' = <<>>
       /\ MyDbg(StartText)
       /\ UNCHANGED <<prog, gsm, railOn, mqttPending, wifiOn, ghost, deb, cod, crcv,
                      dly, otav, call>>
    \/ /\ Goto("setupBegin", "readVoltage")
       /\ OptionsChange
       /\ UNCHANGED <<prog, gsm, env, ghost, util, call, trace>>

(***************************************************************************)
(* loop(), tracker.ino:157-233.                                            *)
(***************************************************************************)

(* 159: myVoltage.readVoltage(); first statement of a tick *)
ReadVoltage ==
    /\ Goto("readVoltage", "readValues")
    /\ trace' = <<"readVoltage">>
    /\ sleepSeen' = NoRead
    /\ evalSeen' = NoEval
    /\ UNCHANGED <<prog, opts, gsm, env, gpsSeen, beginOk, util, call>>

(* 160: myBME280.readValues() *)
ReadValues ==
    /\ Goto("readValues", "cmdCheck")
    /\ trace' = Append(trace, "readValues")
    /\ UNCHANGED <<prog, opts, gsm, env, ghost, util, call>>

(* Mutant of SendAT: while instead of if, the whole queue is drained. *)
SendATDrainsQueue ==
    \/ /\ consoleCmds = <<>>
       /\ Goto("cmdCheck", "webHandle")
       /\ UNCHANGED <<prog, opts, gsm, env, ghost, util, call, trace>>
    \/ /\ consoleCmds # <<>>
       /\ Enter("cmdCheck", "sendAT")
       /\ consoleCmds' = Tail(consoleCmds)
       /\ UNCHANGED <<prog, opts, gsm, railOn, mqttPending, wifiOn, ghost, util>>
    \/ /\ Return("cmdCheck", "sendAT", "cmdCheck")
       /\ WebHandleClient
       /\ UNCHANGED <<prog, gsm, railOn, mqttPending, wifiOn, ghost, util>>

(* 162-166: drain one console command to the modem *)
SendAT ==
    \/ /\ consoleCmds = <<>>
       /\ Goto("cmdCheck", "webHandle")
       /\ UNCHANGED <<prog, opts, gsm, env, ghost, util, call, trace>>
    \/ /\ consoleCmds # <<>>
       /\ Enter("cmdCheck", "sendAT")
       /\ consoleCmds' = Tail(consoleCmds)
       /\ UNCHANGED <<prog, opts, gsm, railOn, mqttPending, wifiOn, ghost, util>>
    \/ /\ Return("cmdCheck", "sendAT", "webHandle")
       /\ WebHandleClient
       /\ UNCHANGED <<prog, gsm, railOn, mqttPending, wifiOn, ghost, util>>

(* The web server switches the update over the air on: SetupOTA() is
   called and myData.isOtaActive set. *)
OtaEnable ==
    /\ ~isOtaActive
    /\ SetupOTA
    /\ isOtaActive' = TRUE
    /\ UNCHANGED <<otaRuns, otaTodo>>

(* 168: myWebServer.handleClient() *)
WebHandle ==
    \/ /\ Enter("webHandle", "webHandle")
       /\ UNCHANGED <<prog, opts, gsm, env, ghost, util>>
    \/ /\ pc = "webHandle"
       /\ call = "webHandle"
       /\ Idle
       /\ OtaEnable
       /\ UNCHANGED <<prog, gsm, railOn, mqttPending, wifiOn, ghost, deb, cod, crcv,
                      dly, pc, call, trace>>
    \/ /\ Return("webHandle", "webHandle", "otaHandle")
       /\ WebHandleClient
       /\ UNCHANGED <<prog, gsm, railOn, mqttPending, wifiOn, ghost, util>>

(* A callback ArduinoOTA.handle() runs, up to its first wait. *)
OtaCallback ==
    \/ OnStart /\ UNCHANGED otaTodo
    \/ OnEnd /\ UNCHANGED otaTodo
    \/ \E p \in OtaProgresses : OnProgress(p.progress, p.total) /\ UNCHANGED otaTodo
    \/ \E error \in OtaErrors : OnError(error)

(* 170-172: if (myData.isOtaActive) ArduinoOTA.handle() *)
OtaHandle ==
    \/ /\ ~isOtaActive
       /\ Goto("otaHandle", "startCheck")
       /\ UNCHANGED <<prog, opts, gsm, env, ghost, util, call, trace>>
    \/ /\ isOtaActive
       /\ Enter("otaHandle", "otaHandle")
       /\ UNCHANGED <<prog, opts, gsm, env, ghost, util>>
    \/ /\ pc = "otaHandle"
       /\ call = "otaHandle"
       /\ Idle
       /\ otaRuns < MaxOta
       /\ OtaCallback
       /\ otaRuns' = otaRuns + 1
       /\ UNCHANGED <<prog, gsm, railOn, mqttPending, wifiOn, ghost, deb, cod, crcv,
                      dly, isOtaActive, pc, call, trace>>
    \/ /\ pc = "otaHandle"
       /\ call = "otaHandle"
       /\ OnErrorFailed
       /\ UNCHANGED <<prog, gsm, railOn, mqttPending, wifiOn, ghost, deb, cod, crcv,
                      dly, isOtaActive, otaRuns, pc, call, trace>>
    \/ /\ Return("otaHandle", "otaHandle", "startCheck")
       /\ UNCHANGED <<prog, opts, gsm, env, ghost, util>>

(* 175: if (myOptions.gsmPower && !gsmHasPower) *)
StartWanted == gsmPower /\ ~gsmHasPower

(* 176, 191: if (!isStarting && !isStopping) *)
NotBusy == ~isStarting /\ ~isStopping

(* 175-176 *)
StartCheck ==
    /\ Goto("startCheck", IF StartWanted /\ NotBusy THEN "startFlag" ELSE "stopCheck")
    /\ evalSeen' = [evalSeen EXCEPT !.start = StartWanted]
    /\ UNCHANGED <<prog, opts, gsm, env, gpsSeen, sleepSeen, beginOk, util, call, trace>>

(* Mutant of StartFlag: the busy flag is set, the attempt itself is left to
   the next tick. *)
StartFlagDefers ==
    /\ Goto("startFlag", "stopCheck")
    /\ isStarting' = TRUE
    /\ UNCHANGED <<gsmHasPower, isStopping, opts, gsm, env, ghost, util, call, trace>>

(* 177: isStarting = true *)
StartFlag ==
    /\ Goto("startFlag", "startOn")
    /\ isStarting' = TRUE
    /\ UNCHANGED <<gsmHasPower, isStopping, opts, gsm, env, ghost, util, call, trace>>

(* 178: myGsmPower.on() *)
StartOn ==
    \/ /\ Enter("startOn", "on")
       /\ UNCHANGED <<prog, opts, gsm, env, ghost, util>>
    \/ /\ Return("startOn", "on", "startPower")
       /\ GsmPowerOn
       /\ WebHandleClient
       /\ UNCHANGED <<prog, gsm, mqttPending, wifiOn, ghost, util>>

(* Mutant of StartPower: line 179 is missing. *)
StartPowerForgotten ==
    /\ Goto("startPower", "startBegin")
    /\ UNCHANGED <<prog, opts, gsm, env, ghost, util, call, trace>>

(* 179: gsmHasPower = true *)
StartPower ==
    /\ Goto("startPower", "startBegin")
    /\ gsmHasPower' = TRUE
    /\ UNCHANGED <<isStarting, isStopping, opts, gsm, env, ghost, util, call, trace>>

(* 180: if (!myGsmGps.begin()) *)
StartBegin ==
    \/ /\ Enter("startBegin", "begin")
       /\ UNCHANGED <<prog, opts, gsm, env, ghost, util>>
    \/ \E ok \in BOOLEAN :
          /\ Return("startBegin", "begin", IF ok THEN "startDone" ELSE "startStop")
          /\ GsmBegin(ok)
          /\ beginOk' = (beginOk \/ ok)
          /\ WebHandleClient
          /\ UNCHANGED <<prog, railOn, mqttPending, wifiOn, gpsSeen, sleepSeen, evalSeen, util>>

(* 181: myGsmGps.stop() *)
StartStop ==
    \/ /\ Enter("startStop", "stop")
       /\ UNCHANGED <<prog, opts, gsm, env, ghost, util>>
    \/ /\ Return("startStop", "stop", "startOff")
       /\ GsmStop
       /\ WebHandleClient
       /\ UNCHANGED <<prog, railOn, mqttPending, wifiOn, ghost, util>>

(* 182: myGsmPower.off() *)
StartOff ==
    \/ /\ Enter("startOff", "off")
       /\ UNCHANGED <<prog, opts, gsm, env, ghost, util>>
    \/ /\ Return("startOff", "off", "startUnpower")
       /\ GsmPowerOff
       /\ WebHandleClient
       /\ UNCHANGED <<prog, gsm, mqttPending, wifiOn, ghost, util>>

(* Mutant of StartUnpower: line 183 is missing after a failed begin(). *)
StartUnpowerForgotten ==
    /\ Goto("startUnpower", "startDone")
    /\ UNCHANGED <<prog, opts, gsm, env, ghost, util, call, trace>>

(* 183: gsmHasPower = false *)
StartUnpower ==
    /\ Goto("startUnpower", "startDone")
    /\ gsmHasPower' = FALSE
    /\ UNCHANGED <<isStarting, isStopping, opts, gsm, env, ghost, util, call, trace>>

(* Mutant of StartDone: line 185 is missing, the busy flag stays set. *)
StartDoneKeepsFlag ==
    /\ Goto("startDone", "stopCheck")
    /\ UNCHANGED <<prog, opts, gsm, env, ghost, util, call, trace>>

(* 185: isStarting = false *)
StartDone ==
    /\ Goto("startDone", "stopCheck")
    /\ isStarting' = FALSE
    /\ UNCHANGED <<gsmHasPower, isStopping, opts, gsm, env, ghost, util, call, trace>>

(* 190: if (!myOptions.gsmPower && gsmHasPower) *)
StopWanted == ~gsmPower /\ gsmHasPower

(* 190-191 *)
StopCheck ==
    /\ Goto("stopCheck", IF StopWanted /\ NotBusy THEN "stopFlag" ELSE "gsmCheck")
    /\ evalSeen' = [evalSeen EXCEPT !.stop = StopWanted /\ NotBusy]
    /\ UNCHANGED <<prog, opts, gsm, env, gpsSeen, sleepSeen, beginOk, util, call, trace>>

(* 192: isStopping = true *)
StopFlag ==
    /\ Goto("stopFlag", "stopStop")
    /\ isStopping' = TRUE
    /\ UNCHANGED <<gsmHasPower, isStarting, opts, gsm, env, ghost, util, call, trace>>

(* 193: myGsmGps.stop() *)
StopStop ==
    \/ /\ Enter("stopStop", "stop")
       /\ UNCHANGED <<prog, opts, gsm, env, ghost, util>>
    \/ /\ Return("stopStop", "stop", "stopOff")
       /\ GsmStop
       /\ WebHandleClient
       /\ UNCHANGED <<prog, railOn, mqttPending, wifiOn, ghost, util>>

(* 194: myGsmPower.off() *)
StopOff ==
    \/ /\ Enter("stopOff", "off")
       /\ UNCHANGED <<prog, opts, gsm, env, ghost, util>>
    \/ /\ Return("stopOff", "off", "stopUnpower")
       /\ GsmPowerOff
       /\ WebHandleClient
       /\ UNCHANGED <<prog, gsm, mqttPending, wifiOn, ghost, util>>

(* Mutant of StopUnpower: line 195 is missing. *)
StopUnpowerForgotten ==
    /\ Goto("stopUnpower", "stopDone")
    /\ UNCHANGED <<prog, opts, gsm, env, ghost, util, call, trace>>

(* 195: gsmHasPower = false *)
StopUnpower ==
    /\ Goto("stopUnpower", "stopDone")
    /\ gsmHasPower' = FALSE
    /\ UNCHANGED <<isStarting, isStopping, opts, gsm, env, ghost, util, call, trace>>

(* Mutant of StopDone: line 196 is missing, the busy flag stays set. *)
StopDoneKeepsFlag ==
    /\ Goto("stopDone", "gsmCheck")
    /\ UNCHANGED <<prog, opts, gsm, env, ghost, util, call, trace>>

(* 196: isStopping = false *)
StopDone ==
    /\ Goto("stopDone", "gsmCheck")
    /\ isStopping' = FALSE
    /\ UNCHANGED <<gsmHasPower, isStarting, opts, gsm, env, ghost, util, call, trace>>

(* Mutant of GsmReady: the dispatch does not look at the power state. *)
GsmReadyAlways == TRUE

(* 201: if (gsmHasPower && !isStarting && !isStopping) *)
GsmReady == gsmHasPower /\ ~isStarting /\ ~isStopping

(* 201 *)
GsmCheck ==
    /\ Goto("gsmCheck", IF GsmReady THEN "gsmHandle" ELSE "sleepCheck")
    /\ evalSeen' = [evalSeen EXCEPT !.ready = gsmHasPower /\ NotBusy]
    /\ UNCHANGED <<prog, opts, gsm, env, gpsSeen, sleepSeen, beginOk, util, call, trace>>

(* 202: myGsmGps.handleClient() *)
GsmHandle ==
    \/ /\ Enter("gsmHandle", "gsmHandle")
       /\ UNCHANGED <<prog, opts, gsm, env, ghost, util>>
    \/ /\ Return("gsmHandle", "gsmHandle", "gpsCheck")
       /\ GsmHandleClient
       /\ WebHandleClient
       /\ UNCHANGED <<prog, railOn, mqttPending, wifiOn, ghost, util>>

(* Mutant of DispatchTarget: SMS and MQTT are dispatched whatever
   waitingForGps() returns. *)
DispatchAlways(g) == "smsHandle"

(* 206: the branch taken by if (!myGsmGps.waitingForGps()), given the
   value g the call returned *)
DispatchTarget(g) == IF ~g THEN "smsHandle" ELSE "sleepCheck"

(* 206 *)
GpsCheck ==
    /\ Goto("gpsCheck", DispatchTarget(gpsPending))
    /\ gpsSeen' = gpsPending
    /\ trace' = Append(trace, "waitingForGps")
    /\ UNCHANGED <<prog, opts, gsm, env, sleepSeen, beginOk, evalSeen, util, call>>

(* 207-209: if (myOptions.isSmsEnabled) mySmsCmd.handleClient(). A command
   received by SMS may rewrite the options, as a web page may. *)
SmsHandle ==
    \/ /\ ~isSmsEnabled
       /\ Goto("smsHandle", "mqttHandle")
       /\ UNCHANGED <<prog, opts, gsm, env, ghost, util, call, trace>>
    \/ /\ isSmsEnabled
       /\ Enter("smsHandle", "smsHandle")
       /\ UNCHANGED <<prog, opts, gsm, env, ghost, util>>
    \/ /\ Return("smsHandle", "smsHandle", "mqttHandle")
       /\ WebHandleClient
       /\ UNCHANGED <<prog, gsm, railOn, mqttPending, wifiOn, ghost, util>>

(* 210-212: if (myOptions.isMqttEnabled) myMqtt.handleClient() *)
MqttHandle ==
    \/ /\ ~isMqttEnabled
       /\ Goto("mqttHandle", "sleepCheck")
       /\ UNCHANGED <<prog, opts, gsm, env, ghost, util, call, trace>>
    \/ /\ isMqttEnabled
       /\ Enter("mqttHandle", "mqttHandle")
       /\ UNCHANGED <<prog, opts, gsm, env, ghost, util>>
    \/ /\ Return("mqttHandle", "mqttHandle", "sleepCheck")
       /\ MqttHandleClient
       /\ WebHandleClient
       /\ UNCHANGED <<prog, gsm, railOn, wifiOn, ghost, util>>

(* Mutant of SleepGpsRead: the sleep evaluation reuses the value read at
   line 206 instead of calling waitingForGps() again. *)
SleepGpsReadCached == gpsSeen

(* 218: the value of myGsmGps.waitingForGps() used by the sleep evaluation *)
SleepGpsRead == gpsPending

(* 218: the value of myMqtt.waitingForMqtt() used by the sleep evaluation *)
SleepMqttRead == mqttPending

(* Mutant of SleepEligible: a pending MQTT send does not hold back sleep. *)
SleepEligibleNoMqtt(g, m, h) == ~g /\ h

(* 218-219: the condition under which the deep-sleep branch is taken, given
   the values returned by waitingForGps(), waitingForMqtt(), haveToSleep() *)
SleepEligible(g, m, h) == ~g /\ ~m /\ h

(* The calls the condition of 218-219 makes: && evaluates left to right and
   stops at the first operand that decides it. *)
SleepCalls(g, m) ==
    <<"waitingForGps">> \o (IF ~g THEN <<"waitingForMqtt">> ELSE <<>>)
                        \o (IF ~g /\ ~m THEN <<"haveToSleep">> ELSE <<>>)

(* 218-219 *)
SleepCheck ==
    \E h \in BOOLEAN :
       LET g == SleepGpsRead
           m == SleepMqttRead
       IN /\ Goto("sleepCheck", IF SleepEligible(g, m, h) THEN "sleepStop" ELSE "tickEnd")
          /\ sleepSeen' = [gps |-> g, mqtt |-> m, sleep |-> h, done |-> TRUE]
          /\ trace' = trace \o SleepCalls(g, m)
          /\ UNCHANGED <<prog, opts, gsm, env, gpsSeen, beginOk, evalSeen, util, call>>

(* Mutant of SleepStopWanted: the session is never stopped before sleep. *)
SleepStopNever == FALSE

(* 220: if (myGsmGps.isGsmActive) *)
SleepStopWanted == isGsmActive

(* 220-222 *)
SleepStop ==
    \/ /\ ~SleepStopWanted
       /\ Goto("sleepStop", "sleepOff")
       /\ UNCHANGED <<prog, opts, gsm, env, ghost, util, call, trace>>
    \/ /\ SleepStopWanted
       /\ Enter("sleepStop", "stop")
       /\ UNCHANGED <<prog, opts, gsm, env, ghost, util>>
    \/ /\ Return("sleepStop", "stop", "sleepOff")
       /\ GsmStop
       /\ WebHandleClient
       /\ UNCHANGED <<prog, railOn, mqttPending, wifiOn, ghost, util>>

(* 223: myGsmPower.off() *)
SleepOff ==
    \/ /\ Enter("sleepOff", "off")
       /\ UNCHANGED <<prog, opts, gsm, env, ghost, util>>
    \/ /\ Return("sleepOff", "off", "wifiOff")
       /\ GsmPowerOff
       /\ WebHandleClient
       /\ UNCHANGED <<prog, gsm, mqttPending, wifiOn, ghost, util>>

(* 224-225: WiFi.disconnect(); WiFi.mode(WIFI_OFF) *)
WifiOff ==
    /\ Goto("wifiOff", "sleepYield")
    /\ wifiOn' = FALSE
    /\ trace' = trace \o <<"wifiDisconnect", "wifiModeOff">>
    /\ UNCHANGED <<prog, opts, gsm, railOn, mqttPending, consoleCmds, ghost, util, call>>

(* Mutant of SleepYield: the yield of line 226 is missing. *)
SleepYieldSkipped ==
    /\ Goto("sleepYield", "sleep")
    /\ UNCHANGED <<prog, opts, gsm, env, ghost, util, call, trace>>

(* 226: yield() *)
SleepYield ==
    /\ Goto("sleepYield", "sleep")
    /\ trace' = Append(trace, "yield")
    /\ UNCHANGED <<prog, opts, gsm, env, ghost, util, call>>

(* 227: myDeepSleep.sleep(). The device is suspended inside the call; on
   wake it restarts at setup() with its memory initialised anew. *)
Sleep ==
    \/ /\ Enter("sleep", "sleep")
       /\ UNCHANGED <<prog, opts, gsm, env, ghost, util>>
    \/ /\ pc = "sleep"
       /\ call = "sleep"
       /\ pc' = "setup"
       /\ call' = "none"
       /\ trace' = <<>>
       /\ gsmHasPower' = FALSE
       /\ isStarting' = FALSE
       /\ isStopping' = FALSE
       /\ isGsmActive' = FALSE
       /\ gpsPending' \in BOOLEAN
       /\ mqttPending' \in BOOLEAN
       /\ railOn' = FALSE
       /\ wifiOn' = TRUE
       /\ consoleCmds' = <<>>
       /\ gpsSeen' = FALSE
       /\ sleepSeen' = NoRead
       /\ evalSeen' = NoEval
       /\ logInfos' = <<>>
       /\ lastNewLine' = TRUE
       /\ logOld' = <<>>
       /\ logArgs' = NoCall
       /\ isOtaActive' = FALSE
       /\ otaRuns' = 0
       /\ dlyMillis' = 0
       /\ dlyFed' = 0
       /\ UNCHANGED <<opts, beginOk, deb, cod, crcv, dbgPc, otaTodo,
                      dlyPc, dlyD, dlyM, dlyServed, dlyIter>>

(* 231-232: yield(); delay(10); the tick is over *)
TickEnd ==
    /\ Goto("tickEnd", "readVoltage")
    /\ trace' = trace \o <<"yield", "delay">>
    /\ UNCHANGED <<prog, opts, gsm, env, ghost, util, call>>

(***************************************************************************)
(* Utils.h: elapsed-time helpers. Both times are counts of seconds since   *)
(* power-on, so they are not negative and their difference fits a long.    *)
(***************************************************************************)

(* Utils.h:56 and Utils.h:67, the condition of both helpers *)
Elapsed(last, cur, interval) ==
    last = 0 \/ (cur - last > interval)

(* Utils.h:52-60 *)
secondsElapsed ==
    /\ elapsedRet' = Elapsed(lastCheckSec, currentSec, intervalSec)
    /\ elapsedOp' = "secondsElapsed"
    /\ elapsedArmed' = (elapsedOp = "secondsElapsedAndUpdate" /\ elapsedRet)
    /\ UNCHANGED <<lastCheckSec, currentSec, intervalSec, notDeb>>

(* Utils.h:63-72 *)
secondsElapsedAndUpdate ==
    /\ elapsedRet' = Elapsed(lastCheckSec, currentSec, intervalSec)
    /\ lastCheckSec' = IF Elapsed(lastCheckSec, currentSec, intervalSec)
                       THEN currentSec ELSE lastCheckSec
    /\ elapsedOp' = "secondsElapsedAndUpdate"
    /\ elapsedArmed' = (elapsedOp = "secondsElapsedAndUpdate" /\ elapsedRet)
    /\ UNCHANGED <<currentSec, intervalSec, notDeb>>

(* secondsSincePowerOn() grows with time. *)
ClockAdvance ==
    /\ currentSec < MaxSec
    /\ currentSec' = currentSec + 1
    /\ elapsedOp' = "none"
    /\ elapsedArmed' = FALSE
    /\ UNCHANGED <<lastCheckSec, intervalSec, elapsedRet, notDeb>>

(* A caller passes another interval. *)
IntervalChange ==
    /\ intervalSec' \in (-1 .. MaxInterval) \ {intervalSec}
    /\ elapsedOp' = "none"
    /\ elapsedArmed' = FALSE
    /\ UNCHANGED <<lastCheckSec, currentSec, elapsedRet, notDeb>>

(***************************************************************************)
(* Utils.h: text, continued.                                               *)
(***************************************************************************)
(* String::indexOf(ch, from): index (from 0) of the first ch at or after
   from, -1 if there is none *)
IndexOf(str, ch, from) ==
    LET hits == {i \in from .. Len(str) - 1 : str[i + 1] = ch}
    IN IF hits = {} THEN -1 ELSE CHOOSE i \in hits : \A j \in hits : i <= j

(* String::substring(left, right): the characters left .. right - 1 *)
Substring(str, left, right) ==
    LET l == IF left > right THEN right ELSE left
        r == IF left > right THEN left ELSE right
        e == IF r > Len(str) THEN Len(str) ELSE r
    IN IF l >= Len(str) THEN <<>> ELSE SubSeq(str, l + 1, e)

(* String::remove(index, 1): nothing happens when index is past the end *)
Remove(str, index) ==
    IF index >= Len(str) THEN str
    ELSE SubSeq(str, 1, index) \o SubSeq(str, index + 2, Len(str))

(* Utils.h:172-179, the first loop of Trim: drops the leading characters
   that are in chars *)
RECURSIVE TrimHead(_, _)
TrimHead(ret, chars) ==
    IF Len(ret) > 0 /\ ret[1] \in chars THEN TrimHead(Remove(ret, 0), chars)
    ELSE ret

(* Utils.h:180-186, the second loop of Trim. It starts at the last index of
   data, not of ret: where i is past the end of ret, ret[i] reads as the
   character 0, which indexOf finds at the end of chars, and remove does
   nothing. *)
RECURSIVE TrimTail(_, _, _)
TrimTail(ret, chars, i) ==
    IF i < 0 THEN ret
    ELSE IF i >= Len(ret) THEN TrimTail(ret, chars, i - 1)
    ELSE IF ret[i + 1] \in chars THEN TrimTail(Remove(ret, i), chars, i - 1)
    ELSE ret

(* Utils.h:168-188 *)
Trim(data, chars) == TrimTail(TrimHead(data, chars), chars, Len(data) - 1)

(* A long has 32 bits, as on the ESP8266 the firmware is built for. *)
LongMax == 2147483647
LongMin == -LongMax - 1

(* a + b in a long, where the sum that does not fit wraps around *)
AddWrap(a, b) ==
    IF b > 0 /\ a > LongMax - b THEN ((a + LongMin) + b) + LongMin
    ELSE IF b < 0 /\ a < LongMin - b THEN (((a + LongMax) + 1 + b) + LongMax) + 1
    ELSE a + b

(* a * k in a long for a constant k >= 0, wrapping around *)
RECURSIVE MulWrap(_, _)
MulWrap(a, k) ==
    IF k = 0 THEN 0
    ELSE LET half == MulWrap(a, k \div 2)
             even == AddWrap(half, half)
         IN IF k % 2 = 0 THEN even ELSE AddWrap(even, a)

(* isspace: the blank, \t, \n, \v, \f and \r.  VT stands for the character
   \v, for which TLA+ has no escape. *)
VT == "\\v"
Spaces == {" ", "\t", "\n", VT, "\f", "\r"}

(* The digits atol reads, with the sign sign: the number the digits read so
   far stand for is acc.  fits says that every step stayed within a long,
   val is the number, wrapped around where a step did not. *)
RECURSIVE AtolDigits(_, _, _, _)
AtolDigits(str, acc, sign, fits) ==
    IF Len(str) > 0 /\ IsDigit(str[1])
    THEN LET d    == DigitVal(str[1])
             q    == LongMax \div 10
             r    == LongMax % 10
             step == IF sign = 1 THEN acc < q \/ (acc = q /\ d <= r)
                     ELSE acc > -q \/ (acc = -q /\ d <= r + 1)
         IN AtolDigits(Tail(str), AddWrap(MulWrap(acc, 10), sign * d), sign,
                       fits /\ step)
    ELSE [fits |-> fits, val |-> acc]

(* atol: skips the leading isspace characters, reads an optional sign and
   the digits that follow, stops at the first other character; 0 when there
   is no digit.  The set of the values atol may return: the number when it
   fits a long; when it does not the behaviour is undefined, and a library
   returns the nearest bound (strtol) or the wrapped number. *)
Atol(str) ==
    LET t    == TrimHead(str, Spaces)
        sign == IF Len(t) > 0 /\ t[1] = "-" THEN -1 ELSE 1
        body == IF Len(t) > 0 /\ t[1] \in {"-", "+"} THEN Tail(t) ELSE t
        n    == AtolDigits(body, 0, sign, TRUE)
    IN IF n.fits THEN {n.val}
       ELSE {n.val, IF sign = 1 THEN LongMax ELSE LongMin}

(***************************************************************************)
(* Utils.h: formatInterval and scanInterval.                               *)
(***************************************************************************)

(* Mutant of HoursOf: the % 24 of line 196 is missing. *)
HoursOfAllHours(secs) == CDiv(CDiv(secs, 60), 60)

(* The text given to scanInterval was not written from fields. *)
NoParts == [colons |-> -1, days |-> 0, hours |-> 0, minutes |-> 0, seconds |-> 0]

(* Utils.h:195-198 *)
DaysOf(secs)    == CDiv(CDiv(CDiv(secs, 60), 60), 24)
HoursOf(secs)   == CRem(CDiv(CDiv(secs, 60), 60), 24)
MinutesOf(secs) == CRem(CDiv(secs, 60), 60)
SecondsOf(secs) == CRem(secs, 60)

(* Utils.h:202, "%02d:%02d:%02d" *)
FormatClock(h, m, sec) ==
    Format02D(h) \o <<":">> \o Format02D(m) \o <<":">> \o Format02D(sec)

(* Utils.h:201-205: is the day count written? *)
DaysWritten(days) == ~(days <= 0)

(* Utils.h:191-207 *)
formatInterval(secs) ==
    IF DaysWritten(DaysOf(secs))
    THEN FormatD(DaysOf(secs)) \o <<" ">>
         \o FormatClock(HoursOf(secs), MinutesOf(secs), SecondsOf(secs))
    ELSE FormatClock(HoursOf(secs), MinutesOf(secs), SecondsOf(secs))

(* Utils.h:214-238: the positions of the two colons and the four texts
   scanInterval cuts out; a text that is not assigned stays empty *)
ScanStrings(interval) ==
    LET t      == Trim(interval, {" "})
        first  == IndexOf(t, ":", 0)
        second == IF first = -1 THEN -1 ELSE IndexOf(t, ":", first + 1)
        space  == IndexOf(t, " ", 0)
        hasDay == space # -1 /\ space < first
    IN [first         |-> first,
        second        |-> second,
        daysString    |-> IF second # -1 /\ hasDay THEN Substring(t, 0, space)
                          ELSE <<>>,
        hoursString   |-> IF second = -1 THEN <<>>
                          ELSE IF hasDay THEN Substring(t, space + 1, first)
                          ELSE Substring(t, 0, first),
        minutesString |-> IF second = -1 THEN <<>>
                          ELSE Substring(t, first + 1, second),
        secondsString |-> IF second = -1 THEN <<>>
                          ELSE Substring(t, second + 1, Len(t))]

(* Utils.h:214-243: the four numbers scanInterval reads from the text, and
   the positions of the two colons; one record for every value atol may
   return.  The numbers stay 0 where line 240 is not reached. *)
ScanFields(interval) ==
    LET c    == ScanStrings(interval)
        read == c.second # -1
    IN {[first |-> c.first, second |-> c.second,
         days |-> d, hours |-> h, minutes |-> m, seconds |-> x] :
            d \in IF read THEN Atol(c.daysString) ELSE {0},
            h \in IF read THEN Atol(c.hoursString) ELSE {0},
            m \in IF read THEN Atol(c.minutesString) ELSE {0},
            x \in IF read THEN Atol(c.secondsString) ELSE {0}}

(* Utils.h:245-248 *)
FieldsInRange(f) ==
    /\ f.days >= 0
    /\ f.hours >= 0 /\ f.hours <= 23
    /\ f.minutes >= 0 /\ f.minutes <= 59
    /\ f.seconds >= 0 /\ f.seconds <= 59

(* Utils.h:216, 228, 245-248: does scanInterval return true? *)
ScanOk(f) == f.first # -1 /\ f.second # -1 /\ FieldsInRange(f)

(* Utils.h:249-253 with fields in range: does every product and every sum
   fit a long? *)
SumFits(f) ==
    f.days <= (LongMax - (f.hours * 60 * 60 + f.minutes * 60 + f.seconds))
              \div (24 * 60 * 60)

(* Utils.h:249-253, computed in long, wrapping around *)
SumWrap(f) ==
    LET s0 == 0
        s1 == AddWrap(s0, MulWrap(MulWrap(MulWrap(f.days, 24), 60), 60))
        s2 == AddWrap(s1, MulWrap(MulWrap(f.hours, 60), 60))
        s3 == AddWrap(s2, MulWrap(f.minutes, 60))
    IN AddWrap(s3, f.seconds)

(* Utils.h:249-253: the values secs may have when scanInterval returns
   true.  The overflow of a signed long is undefined: the build wraps
   around, or computes anything else, of which the two bounds stand here. *)
ScanValue(f) ==
    IF SumFits(f) THEN {SumWrap(f)} ELSE {SumWrap(f), LongMax, LongMin}

(* The values of secs given to formatInterval: every value up to
   MaxPlainSecs, and values from all over 0 .. 9999999 with one- and
   two-digit fields and the largest fields. *)
FormatInputs ==
    (0 .. MaxPlainSecs) \cup {9999999} \cup
    {d * 86400 + h * 3600 + m * 60 + x :
        d \in {0, 1, 2, 9, 10, 99, 100, 115}, h \in {0, 1, 9, 10, 23},
        m \in {0, 9, 10, 59}, x \in {0, 1, 9, 10, 59}}

(* A caller formats secs: text = formatInterval(secs) *)
FormatCall ==
    /\ codPc = "format"
    /\ codText' = formatInterval(codSecs)
    /\ codPc' = "scan"
    /\ UNCHANGED <<codSecs, codOut, codOld, codRet, codParts, notCod>>

(* Utils.h:210-259: a caller scans the text: ret = scanInterval(text, out) *)
scanInterval ==
    /\ codPc = "scan"
    /\ \E f \in ScanFields(codText) :
          IF ScanOk(f)
          THEN codRet' = TRUE /\ codOut' \in ScanValue(f)
          ELSE codRet' = FALSE /\ codOut' = codOut
    /\ codOld' = codOut
    /\ codPc' = "done"
    /\ UNCHANGED <<codSecs, codText, codParts, notCod>>

(***************************************************************************)
(* Utils.h: crc32.  A long is a sequence of bits, bit 0 first, so that the *)
(* arithmetic is the one of the machine whatever the width of a long.      *)
(***************************************************************************)
HexChars == <<"0", "1", "2", "3", "4", "5", "6", "7", "8", "9",
              "a", "b", "c", "d", "e", "f">>

HexVal(c) == (CHOOSE d \in 1 .. 16 : HexChars[d] = c) - 1

(* The w bits f[1] .. f[w], written out as a tuple. *)
Bits(f, w) == SubSeq(f, 1, w)

(* The bits of a hexadecimal literal. *)
HexBits(h) ==
    Bits([i \in 1 .. 4 * Len(h) |->
            (HexVal(h[Len(h) - ((i - 1) \div 4)]) \div (2 ^ ((i - 1) % 4))) % 2],
         4 * Len(h))

(* The bits of an unsigned char. *)
ByteBits(b) == Bits([i \in 1 .. 8 |-> (b \div (2 ^ (i - 1))) % 2], 8)

(* Conversion of an unsigned value to a wider type. *)
ZeroExtend(b, w) == Bits([i \in 1 .. w |-> IF i <= Len(b) THEN b[i] ELSE 0], w)

(* The long 0. *)
Zero(w) == Bits([i \in 1 .. w |-> 0], w)

(* ~x *)
BitNot(x) == Bits([i \in 1 .. Len(x) |-> 1 - x[i]], Len(x))

(* x ^ y *)
BitXor(x, y) == Bits([i \in 1 .. Len(x) |-> (x[i] + y[i]) % 2], Len(x))

(* x >> 1 of a signed long: the sign bit is shifted in. *)
ShiftRight(x) ==
    Bits([i \in 1 .. Len(x) |-> IF i < Len(x) THEN x[i + 1] ELSE x[Len(x)]], Len(x))

(* Utils.h:74 *)
POLY == HexBits(<<"e", "d", "b", "8", "8", "3", "2", "0">>)

(* Utils.h:83: one pass of the inner loop. *)
CrcShift(crc) ==
    IF crc[1] = 1 THEN BitXor(ShiftRight(crc), ZeroExtend(POLY, Len(crc)))
                  ELSE ShiftRight(crc)

(* Utils.h:82-83: the inner loop, eight passes. *)
RECURSIVE CrcShifts(_, _)
CrcShifts(crc, k) == IF k = 0 THEN crc ELSE CrcShifts(CrcShift(crc), k - 1)

(* Utils.h:81-83: one pass of the outer loop. *)
CrcByte(crc, byte) == CrcShifts(BitXor(crc, ZeroExtend(ByteBits(byte), Len(crc))), 8)

(* Mutant of CrcOut: the state is returned as it is, not complemented. *)
CrcOutRaw(crc) == crc

(* Utils.h:85: the value returned. *)
CrcOut(crc) == BitNot(crc)

(* The nine bytes "123456789". *)
CheckBytes == <<49, 50, 51, 52, 53, 54, 55, 56, 57>>

RECURSIVE BytesUpTo(_)
BytesUpTo(n) ==
    IF n = 0 THEN {<<>>}
    ELSE LET shorter == BytesUpTo(n - 1)
         IN shorter \cup {Append(b, c) : b \in shorter, c \in {0, 49, 255}}

(* The buffers given to crc32. *)
CrcInputs == {CheckBytes} \cup BytesUpTo(MaxBytes)

(* The arguments of the three calls: crc32(0, buf, len), crc32(0, buf, cut)
   and crc32(<what the second call returned>, buf + cut, len - cut). *)
CrcStart ==
    IF crcPc = "second" THEN crcFirst ELSE Zero(crcLong)

CrcBuffer ==
    CASE crcPc = "whole"  -> crcBuf
      [] crcPc = "first"  -> SubSeq(crcBuf, 1, crcCut)
      [] crcPc = "second" -> SubSeq(crcBuf, crcCut + 1, Len(crcBuf))

(* Utils.h:77-79: crc32 is entered. *)
CrcEnter ==
    /\ crcPc \in {"whole", "first", "second"}
    /\ crcAt = "enter"
    /\ crcAcc' = BitNot(CrcStart)
    /\ crcLeft' = CrcBuffer
    /\ crcAt' = "loop"
    /\ UNCHANGED <<crcPc, crcLong, crcBuf, crcCut, crcWhole, crcFirst, crcChain, notCrc>>

(* Utils.h:80-84: one byte is taken in. *)
CrcLoop ==
    /\ crcAt = "loop"
    /\ crcLeft # <<>>
    /\ crcAcc' = CrcByte(crcAcc, Head(crcLeft))
    /\ crcLeft' = Tail(crcLeft)
    /\ UNCHANGED <<crcPc, crcAt, crcLong, crcBuf, crcCut, crcWhole, crcFirst, crcChain,
                   notCrc>>

(* Utils.h:85: crc32 returns. *)
CrcReturn ==
    /\ crcAt = "loop"
    /\ crcLeft = <<>>
    /\ crcAt' = "enter"
    /\ crcWhole' = IF crcPc = "whole" THEN CrcOut(crcAcc) ELSE crcWhole
    /\ crcFirst' = IF crcPc = "first" THEN CrcOut(crcAcc) ELSE crcFirst
    /\ crcChain' = IF crcPc = "second" THEN CrcOut(crcAcc) ELSE crcChain
    /\ crcPc' = CASE crcPc = "whole"  -> "first"
                  [] crcPc = "first"  -> "second"
                  [] crcPc = "second" -> "done"
    /\ UNCHANGED <<crcAcc, crcLeft, crcLong, crcBuf, crcCut, notCrc>>

(***************************************************************************)
(* tracker.ino:84-111, myDebugInfo.  A line of the log is a sequence of    *)
(* characters. What goes to Serial is not modelled.                        *)
(***************************************************************************)
LogTexts == {<<"a">>, <<"o", "k">>}

LogSecs == {0, 9, 10}

(* 84-111, called with any text, from the web server or not *)
myDebugInfo ==
    \E info \in LogTexts, fromWebserver \in BOOLEAN, newline \in BOOLEAN :
       /\ logArgs.n < MaxCalls
       /\ DebugInfo(info, fromWebserver, newline)
       /\ UNCHANGED <<held, deb, cod, crcv, dly, otav>>

(* Mutant of yield: the yield of the ESP core, which does not feed the
   watchdog. *)
yieldCore == dlyFed' = dlyFed

(* tracker.ino:75-78 *)
yield == dlyFed' = dlyFed + 1

(* delay(1): millis() is one more when it returns. *)
Delay1 == dlyMillis' = dlyMillis + 1

(* tracker.ino:109-110: the delay(1) of myDebugInfo is over, yield() feeds
   the watchdog and myDebugInfo returns *)
DebugWait ==
    /\ dbgPc = "wait"
    /\ Delay1
    /\ yield
    /\ dbgPc' = "idle"
    /\ UNCHANGED <<logInfos, lastNewLine, logOld, logArgs>>
    /\ UNCHANGED <<dlyPc, dlyD, dlyM, dlyServed, dlyIter>>
    /\ UNCHANGED <<loopVars, deb, cod, crcv, otav>>

(* secondsSincePowerOn() grows between two calls. *)
LogClock ==
    /\ currentSec' \in {sec \in LogSecs : sec > currentSec}
    /\ UNCHANGED <<lastCheckSec, intervalSec, elapsedOp, elapsedRet, elapsedArmed>>
    /\ UNCHANGED <<loopVars, cod, crcv, logv, dly, otav>>

(***************************************************************************)
(* Utils.h:104-113, MyDelay, with myDelayLoop (tracker.ino:114-121).       *)
(* millis() is an unsigned long, so the test of line 108 is made on        *)
(* unsigned values: the difference is the time passed, whatever the value  *)
(* of the counter, and a negative millisDelay counts as a value above      *)
(* every time that can pass.                                               *)
(***************************************************************************)

(* a < b of two longs converted to unsigned long: a negative one is above
   every one that is not. *)
UnsignedLess(a, b) == IF (a >= 0) = (b >= 0) THEN a < b ELSE b < 0

(* Utils.h:106 *)
MyDelayEnter ==
    /\ dlyPc = "enter"
    /\ dlyM' = dlyMillis
    /\ dlyPc' = "check"
    /\ UNCHANGED <<dlyD, dlyMillis, dlyServed, dlyFed, dlyIter>>
    /\ UNCHANGED <<loopVars, deb, cod, crcv, logv, otav>>

(* Utils.h:108: while (millis() - m < millisDelay) *)
MyDelayCheck ==
    /\ dlyPc = "check"
    /\ dlyPc' = IF UnsignedLess(dlyMillis - dlyM, dlyD) THEN "loop" ELSE "done"
    /\ dlyServed' = 0
    /\ dlyFed' = 0
    /\ UNCHANGED <<dlyD, dlyM, dlyMillis, dlyIter>>
    /\ UNCHANGED <<loopVars, deb, cod, crcv, logv, otav>>

(* Utils.h:109, tracker.ino:114-119: myDelayLoop() up to its delay(1).  A
   wait that does not end is followed for MaxDelay passes. *)
myDelayLoop ==
    /\ dlyPc = "loop"
    /\ dlyIter < MaxDelay
    /\ WebHandleClient
    /\ dlyServed' = dlyServed + 3
    /\ dlyPc' = "loopWait"
    /\ UNCHANGED <<dlyD, dlyM, dlyMillis, dlyFed, dlyIter>>
    /\ UNCHANGED <<held, deb, cod, crcv, logv, otav>>

(* tracker.ino:119-120: the delay(1) of myDelayLoop is over, yield() *)
myDelayLoopWait ==
    /\ dlyPc = "loopWait"
    /\ Delay1
    /\ yield
    /\ dlyPc' = "yield"
    /\ UNCHANGED <<dlyD, dlyM, dlyServed, dlyIter>>
    /\ UNCHANGED <<loopVars, deb, cod, crcv, logv, otav>>

(* Utils.h:110 *)
MyDelayYield ==
    /\ dlyPc = "yield"
    /\ yield
    /\ dlyPc' = "delay"
    /\ UNCHANGED <<dlyD, dlyM, dlyMillis, dlyServed, dlyIter>>
    /\ UNCHANGED <<loopVars, deb, cod, crcv, logv, otav>>

(* Utils.h:111 *)
MyDelayWait ==
    /\ dlyPc = "delay"
    /\ Delay1
    /\ dlyIter' = dlyIter + 1
    /\ dlyPc' = "check"
    /\ UNCHANGED <<dlyD, dlyM, dlyServed, dlyFed>>
    /\ UNCHANGED <<loopVars, deb, cod, crcv, logv, otav>>

(***************************************************************************)
(* Specifications.                                                         *)
(***************************************************************************)
InitLoop ==
    /\ gsmHasPower = FALSE
    /\ isStarting = FALSE
    /\ isStopping = FALSE
    /\ gsmPower \in BOOLEAN
    /\ isSmsEnabled \in BOOLEAN
    /\ isMqttEnabled \in BOOLEAN
    /\ consoleCmds = <<>>
    /\ railOn = FALSE
    /\ isGsmActive = FALSE
    /\ gpsPending \in BOOLEAN
    /\ mqttPending \in BOOLEAN
    /\ wifiOn = TRUE
    /\ pc = "setup"
    /\ call = "none"
    /\ trace = <<>>
    /\ gpsSeen = FALSE
    /\ sleepSeen = NoRead
    /\ beginOk = FALSE
    /\ evalSeen = NoEval

InitElapsed ==
    /\ currentSec = 0
    /\ lastCheckSec = 0
    /\ intervalSec = 0
    /\ elapsedOp = "none"
    /\ elapsedRet = FALSE
    /\ elapsedArmed = FALSE

(* No call of the interval codec is under way. *)
InitCodec ==
    /\ codPc = "done"
    /\ codSecs = 0
    /\ codText = <<>>
    /\ codOut = 0
    /\ codOld = 0
    /\ codRet = FALSE
    /\ codParts = NoParts

(* No checksum is being computed. *)
InitChecksum ==
    /\ crcPc = "done"
    /\ crcLong = 32
    /\ crcBuf = <<>>
    /\ crcCut = 0
    /\ crcWhole = <<>>
    /\ crcFirst = <<>>
    /\ crcChain = <<>>
    /\ crcAt = "enter"
    /\ crcAcc = <<>>
    /\ crcLeft = <<>>

(* Nothing logged yet. *)
InitLog ==
    /\ logInfos = <<>>
    /\ lastNewLine = TRUE
    /\ logOld = <<>>
    /\ logArgs = NoCall
    /\ dbgPc = "idle"

(* No wait is under way. *)
InitWait ==
    /\ dlyPc = "done"
    /\ dlyD = 0
    /\ dlyM = 0
    /\ dlyMillis = 0
    /\ dlyServed = 0
    /\ dlyFed = 0
    /\ dlyIter = 0

(* The update over the air is off. *)
InitOta ==
    /\ isOtaActive = FALSE
    /\ otaRuns = 0
    /\ otaTodo = <<>>

InitRest == InitLog /\ InitWait /\ InitOta

Init == InitLoop /\ InitElapsed /\ InitCodec /\ InitChecksum /\ InitRest

Loop ==
    \/ ReadVoltage \/ ReadValues \/ SendAT \/ WebHandle \/ OtaHandle
    \/ StartCheck \/ StartFlag \/ StartOn \/ StartPower \/ StartBegin
    \/ StartStop \/ StartOff \/ StartUnpower \/ StartDone
    \/ StopCheck \/ StopFlag \/ StopStop \/ StopOff \/ StopUnpower \/ StopDone
    \/ GsmCheck \/ GsmHandle \/ GpsCheck \/ SmsHandle \/ MqttHandle
    \/ SleepCheck \/ SleepStop \/ SleepOff \/ WifiOff \/ SleepYield \/ Sleep
    \/ TickEnd

Next == Setup \/ Loop \/ DebugWait

Spec == Init /\ [][Next]_vars

(* The elapsed-time helpers, called at any time with any interval. *)
InitDebounce ==
    /\ InitLoop
    /\ gsmPower = FALSE /\ isSmsEnabled = FALSE /\ isMqttEnabled = FALSE
    /\ gpsPending = FALSE /\ mqttPending = FALSE
    /\ currentSec = 0
    /\ lastCheckSec = 0
    /\ intervalSec \in -1 .. MaxInterval
    /\ elapsedOp = "none"
    /\ elapsedRet = FALSE
    /\ elapsedArmed = FALSE
    /\ InitCodec
    /\ InitChecksum
    /\ InitRest

NextDebounce ==
    \/ secondsElapsed
    \/ secondsElapsedAndUpdate
    \/ ClockAdvance
    \/ IntervalChange

SpecDebounce == InitDebounce /\ [][NextDebounce]_vars

(* The loop is not running: the state the utilities are called in. *)
InitIdle ==
    /\ InitLoop
    /\ gsmPower = FALSE /\ isSmsEnabled = FALSE /\ isMqttEnabled = FALSE
    /\ gpsPending = FALSE /\ mqttPending = FALSE

(* The interval codec: a value is formatted and the text scanned back. *)
InitRoundTrip ==
    /\ InitIdle
    /\ InitElapsed
    /\ codPc = "format"
    /\ codSecs \in FormatInputs
    /\ codText = <<>>
    /\ codOut \in {-1, 777}
    /\ codOld = 0
    /\ codRet = FALSE
    /\ codParts = NoParts
    /\ InitChecksum
    /\ InitRest

NextRoundTrip == FormatCall \/ scanInterval

SpecRoundTrip == InitRoundTrip /\ [][NextRoundTrip]_vars

(* The ways to write the number n in a text, and the number an empty
   field stands for. *)
Written(n) == {[txt |-> FormatD(n), val |-> n], [txt |-> Format02D(n), val |-> n]}
Unwritten  == [txt |-> <<>>, val |-> 0]

(* Texts written from fields: blanks around, a day field or none, three
   fields with or without the colons between them. *)
PlainInputs ==
    LET days  == {Unwritten} \cup
                 {[txt |-> w.txt \o <<" ">>, val |-> w.val] :
                     w \in UNION {Written(n) : n \in {-1, 0, 1, 10}}}
        hours == {Unwritten} \cup UNION {Written(n) : n \in {-1, 0, 7, 12, 23, 24, 25}}
        mins  == {Unwritten} \cup UNION {Written(n) : n \in {-1, 0, 30, 59, 60}}
        secs  == {Unwritten} \cup UNION {Written(n) : n \in {-1, 0, 45, 59, 60}}
        seps  == {<<>>, <<":">>}
        pads  == {<<>>, <<" ">>}
    IN {[text  |-> a \o d.txt \o h.txt \o c1 \o m.txt \o c2 \o x.txt \o b,
         parts |-> [colons |-> Len(c1) + Len(c2), days |-> d.val, hours |-> h.val,
                    minutes |-> m.val, seconds |-> x.val]] :
           a \in pads, d \in days, h \in hours, c1 \in seps, m \in mins,
           c2 \in seps, x \in secs, b \in pads}

(* Texts written from fields that begin with an isspace character, and
   from day counts around the largest a long has room for:
   24855 03:14:07 is LongMax seconds. *)
SpaceInputs ==
    LET After(ws, n) == [txt |-> ws \o Format02D(n), val |-> n]
        days  == {Unwritten, [txt |-> <<"\t", "1", " ">>, val |-> 1],
                  [txt |-> FormatD(24855) \o <<" ">>, val |-> 24855],
                  [txt |-> FormatD(24856) \o <<" ">>, val |-> 24856]}
        hours == {After(<<c>>, n) : c \in Spaces \ {" "}, n \in {-1, 3, 5, 24}}
                 \cup {After(<<>>, n) : n \in {-1, 3, 5, 24}}
        mins  == {After(ws, n) : ws \in {<<>>, <<"\n">>, <<"\r">>},
                                 n \in {-1, 0, 7, 14, 60}}
        secs  == {After(ws, n) : ws \in {<<>>, <<VT>>, <<"\f">>},
                                 n \in {0, 7, 8, 60}}
    IN {[text  |-> d.txt \o h.txt \o <<":">> \o m.txt \o <<":">> \o x.txt,
         parts |-> [colons |-> 2, days |-> d.val, hours |-> h.val,
                    minutes |-> m.val, seconds |-> x.val]] :
           d \in days, h \in hours, m \in mins, x \in secs}

(* Texts with a run of digits that does not fit a long, or just fits. *)
LongInputs ==
    LET long == {<<"2", "1", "4", "7", "4", "8", "3", "6", "4", "7">>,
                 <<"2", "1", "4", "7", "4", "8", "3", "6", "4", "8">>,
                 <<"-", "2", "1", "4", "7", "4", "8", "3", "6", "4", "8">>,
                 <<"-", "2", "1", "4", "7", "4", "8", "3", "6", "4", "9">>,
                 <<"4", "2", "9", "4", "9", "6", "7", "3", "0", "1">>,
                 <<"9", "9", "9", "9", "9", "9", "9", "9", "9", "9", "9">>}
        zero == <<"0", "0">>
    IN {[text |-> t, parts |-> NoParts] :
           t \in UNION {{n \o <<" ">> \o zero \o <<":">> \o zero \o <<":">> \o zero,
                         n \o <<":">> \o zero \o <<":">> \o zero,
                         zero \o <<":">> \o n \o <<":">> \o zero,
                         zero \o <<":">> \o zero \o <<":">> \o n} : n \in long}}

(* The texts given to scanInterval. *)
ScanInputs == PlainInputs \cup SpaceInputs \cup LongInputs

(* scanInterval is given a text, well-formed or not. *)
InitScan ==
    /\ InitIdle
    /\ InitElapsed
    /\ codPc = "scan"
    /\ codSecs = 0
    /\ \E in \in ScanInputs : codText = in.text /\ codParts = in.parts
    /\ codOut \in {-1, 777}
    /\ codOld = 0
    /\ codRet = FALSE
    /\ InitChecksum
    /\ InitRest

NextScan == scanInterval

SpecScan == InitScan /\ [][NextScan]_vars

(* crc32 over a buffer at once and in two chained calls, for both widths
   of a long (32 bits on the ESP8266, 64 bits on an LP64 host). *)
InitCrc ==
    /\ InitIdle
    /\ InitElapsed
    /\ InitCodec
    /\ crcPc = "whole"
    /\ crcLong \in {32, 64}
    /\ crcBuf \in CrcInputs
    /\ crcCut \in 0 .. Len(crcBuf)
    /\ crcWhole = <<>>
    /\ crcFirst = <<>>
    /\ crcChain = <<>>
    /\ crcAt = "enter"
    /\ crcAcc = <<>>
    /\ crcLeft = <<>>
    /\ InitRest

NextCrc == CrcEnter \/ CrcLoop \/ CrcReturn

SpecCrc == InitCrc /\ [][NextCrc]_vars

(* myDebugInfo called some times, from the web server or not, as time
   passes. *)
InitDebug ==
    /\ InitLoop
    /\ InitElapsed
    /\ InitCodec
    /\ InitChecksum
    /\ InitLog
    /\ InitWait
    /\ InitOta

NextDebug == myDebugInfo \/ DebugWait \/ LogClock

SpecDebug == InitDebug /\ [][NextDebug]_vars

(* MyDelay called once; the clock advances and every call made returns. *)
InitDelay ==
    /\ InitLoop
    /\ InitElapsed
    /\ InitCodec
    /\ InitChecksum
    /\ InitLog
    /\ InitOta
    /\ dlyPc = "enter"
    /\ dlyD \in -MaxDelay .. MaxDelay
    /\ dlyM = 0
    /\ dlyMillis \in {0, 5}
    /\ dlyServed = 0
    /\ dlyFed = 0
    /\ dlyIter = 0

NextDelay ==
    \/ MyDelayEnter \/ MyDelayCheck \/ myDelayLoop \/ myDelayLoopWait
    \/ MyDelayYield \/ MyDelayWait

SpecDelay == InitDelay /\ [][NextDelay]_vars /\ WF_vars(NextDelay)

(***************************************************************************)
(* Properties.                                                             *)
(***************************************************************************)

(* Statements of the start block (177-185) and of the stop block (192-196)
   at which the block's busy flag is set. *)
StartBlock == {"startOn", "startPower", "startBegin", "startStop", "startOff",
               "startUnpower", "startDone"}
StopBlock  == {"stopStop", "stopOff", "stopUnpower", "stopDone"}

(* Statements of the deep-sleep branch (220-227). *)
SleepBranch == {"sleepStop", "sleepOff", "wifiOff", "sleepYield", "sleep"}

(* The operations that use the channel to the modem. *)
ChannelOps == {"sendAT", "smsHandle", "mqttHandle", "stop"}

(* Number of calls of op made so far in the current tick. *)
Count(op) == Cardinality({i \in 1 .. Len(trace) : trace[i] = op})

(* The last n calls of the current tick. *)
LastCalls(n) == SubSeq(trace, Len(trace) - n + 1, Len(trace))

(* C1: isStarting and isStopping are never both true, and whenever one of
   them is true the start block, respectively the stop block, of loop() is
   in progress; this holds at every statement and inside every call. *)
C1_FlagsExclusive ==
    /\ ~(isStarting /\ isStopping)
    /\ isStarting => pc \in StartBlock
    /\ isStopping => pc \in StopBlock

C1_Witness == isStarting /\ call = "begin"

(* C2: whenever myGsmPower.off() is called (failed start, demand-driven
   stop, deep sleep) the session is not active, and on the paths where the
   session was active a stop() came right before the off(). *)
C2_NoCutWhileActive ==
    call = "off" =>
        /\ ~isGsmActive
        /\ pc \in {"startOff", "stopOff"} => LastCalls(2) = <<"stop", "off">>

C2_Witness == call = "off" /\ pc = "sleepOff" /\ LastCalls(2) = <<"stop", "off">>

(* C3: while waitingForGps() is true, neither SMS nor MQTT handling is
   invoked and the deep-sleep branch is not taken. *)
C3_NothingWhileGpsPending ==
    gpsPending =>
        /\ call \notin {"smsHandle", "mqttHandle"}
        /\ ~(pc = "sleepStop" /\ call = "none")
        /\ ~(pc = "sleepOff" /\ Count("stop") = 0)

C3_Witness ==
    /\ pc = "tickEnd"
    /\ gpsPending /\ gsmHasPower /\ isSmsEnabled /\ isMqttEnabled
    /\ Count("gsmHandle") = 1
    /\ Count("smsHandle") = 0 /\ Count("mqttHandle") = 0

(* C4: when the suspend call is made, the calls before it in the tick are,
   in this order: stop() if the session was active, off(), the two calls
   that disable WiFi, one yield; the session is not active unless stop()
   has been called on it. *)
C4_SleepOrder ==
    call = "sleep" =>
        /\ LastCalls(5) = <<"off", "wifiDisconnect", "wifiModeOff", "yield", "sleep">>
        /\ LastCalls(6)[1] \in {"stop", "haveToSleep"}
        /\ isGsmActive => LastCalls(6)[1] = "stop"

C4_Witness == call = "sleep" /\ LastCalls(6)[1] = "stop"

(* C5: as long as begin() has never succeeded, the power state is Off at
   the end of every tick, and isStarting is set only inside the start block
   of the tick that makes the attempt. *)
C5_FailedStartReturnsToOff ==
    ~beginOk =>
        /\ pc \in {"tickEnd", "readVoltage"} =>
              ~gsmHasPower /\ ~isStarting /\ ~isStopping
        /\ isStarting => pc \in StartBlock

C5_Witness ==
    /\ ~beginOk /\ gsmPower /\ pc = "tickEnd"
    /\ Count("begin") = 1 /\ Count("stop") = 1 /\ Count("off") = 1

(* C6, as stated: at most one modem-channel operation per tick. *)
C6_AtMostOnePerTick ==
    Count("sendAT") + Count("smsHandle") + Count("mqttHandle") + Count("stop") <= 1

(* C6, amended: each modem-channel operation is performed at most once per
   tick (several different ones may be performed in the same tick). *)
C6_EachAtMostOncePerTick ==
    \A op \in ChannelOps : Count(op) <= 1

C6_Witness ==
    /\ call = "sleep"
    /\ \A op \in ChannelOps : Count(op) = 1

(* C7, as stated: no modem-channel operation runs while isStarting or
   isStopping is true. *)
C7_NoChannelOpInTransition ==
    call \in ChannelOps => ~isStarting /\ ~isStopping

(* C7, amended: AT pass-through, SMS handling and MQTT handling never run
   while isStarting or isStopping is true; the session stop runs inside a
   transition exactly when it is the stop() of the start or stop block. *)
C7_NoDispatchInTransition ==
    /\ call \in {"sendAT", "smsHandle", "mqttHandle"} => ~isStarting /\ ~isStopping
    /\ call = "stop" => ((isStarting \/ isStopping) <=> pc \in {"startStop", "stopStop"})

C7_Witness == call = "stop" /\ isStopping /\ Count("sendAT") = 1

(* Phase of a statement of loop(): 1 sensor sampling, 2 command drain,
   3 responder service, 4 power-state evaluation, 5 collaborator dispatch,
   6 sleep evaluation. *)
PhasePcs ==
    <<{"readVoltage", "readValues"},
      {"cmdCheck"},
      {"webHandle", "otaHandle"},
      {"startCheck", "startFlag", "stopCheck", "stopFlag"} \cup StartBlock \cup StopBlock,
      {"gsmCheck", "gsmHandle", "gpsCheck", "smsHandle", "mqttHandle"},
      {"sleepCheck", "tickEnd"} \cup SleepBranch>>

Phase(p) ==
    IF \E i \in 1 .. 6 : p \in PhasePcs[i]
    THEN CHOOSE i \in 1 .. 6 : p \in PhasePcs[i]
    ELSE 0

(* C8: within a tick the phases run in their fixed order, each tick goes
   through all of them, and the pending-GPS and pending-MQTT values the
   sleep evaluation uses are the values the flags have when it is made. *)
C8_PhaseOrder ==
    /\ [][pc \notin {"setup", "tickEnd", "sleep"} =>
             Phase(pc') \in {Phase(pc), Phase(pc) + 1}]_vars
    /\ [](sleepSeen.done /\ call = "none" /\ pc \in {"sleepStop", "tickEnd"} =>
             sleepSeen.gps = gpsPending /\ sleepSeen.mqtt = mqttPending)

C8_Witness ==
    /\ pc = "tickEnd" /\ sleepSeen.done
    /\ Count("mqttHandle") = 1 /\ sleepSeen.mqtt /\ ~sleepSeen.gps

(* C9: the deep-sleep branch is entered only when, at the sleep evaluation
   of the tick, haveToSleep() is true and neither a GPS fix nor an MQTT send
   is pending. *)
C9_SleepOnlyWhenEligible ==
    /\ pc \in SleepBranch =>
          sleepSeen.done /\ sleepSeen.sleep /\ ~sleepSeen.gps /\ ~sleepSeen.mqtt
    /\ pc = "sleepStop" /\ call = "none" => ~gpsPending /\ ~mqttPending

C9_Witness == call = "sleep" /\ Count("mqttHandle") = 1

(* C10: secondsElapsed with lastCheckSec = 0 returns true; and right after
   secondsElapsedAndUpdate has returned true, a call of either helper at
   the same time with the same interval returns false. *)
C10_Debounce ==
    /\ elapsedOp = "secondsElapsed" /\ lastCheckSec = 0 => elapsedRet
    /\ elapsedOp # "none" /\ elapsedArmed => ~elapsedRet

(* C11: for every s in 0 .. 9999999, scanInterval(formatInterval(s), out)
   returns true and sets out to s. *)
C11_RoundTrip ==
    codPc = "done" /\ codSecs >= 0 /\ codSecs <= 9999999 =>
        codRet /\ codOut = codSecs

C11_Witness ==
    /\ codPc = "done" /\ codSecs = 9999999 /\ codOld # codOut
    /\ codText = <<"1", "1", "5", " ", "1", "7", ":", "4", "6", ":", "3", "9">>

(* C12: scanInterval returns false and leaves the output untouched when
   the text has fewer than two colons, or hours outside 0..23, or minutes
   or seconds outside 0..59, or negative days; when it returns true the
   output is days*86400 + hours*3600 + minutes*60 + seconds, a number that
   the output, a long, has room for. *)
C12_ScanRejects ==
    LET f == codParts
        bad == \/ f.colons < 2
               \/ f.hours < 0 \/ f.hours > 23
               \/ f.minutes < 0 \/ f.minutes > 59
               \/ f.seconds < 0 \/ f.seconds > 59
               \/ f.days < 0
    IN codPc = "done" /\ codParts # NoParts =>
          /\ bad => ~codRet /\ codOut = codOld
          /\ codRet => /\ SumFits(f)
                       /\ codOut = f.days * 86400 + f.hours * 3600
                                   + f.minutes * 60 + f.seconds

(* C13: crc32 started from 0 over the bytes "123456789" returns, as a
   32-bit value, the CRC-32 check value 0xCBF43926. *)
C13_CheckValue ==
    crcPc \in {"first", "second", "done"} /\ crcBuf = CheckBytes =>
        SubSeq(crcWhole, 1, 32) = HexBits(<<"c", "b", "f", "4", "3", "9", "2", "6">>)

(* C19: feeding the result of crc32 over A as the start value of crc32
   over B gives crc32 from 0 over A followed by B. *)
C19_Chaining == crcPc = "done" => crcChain = crcWhole

C19_Witness ==
    /\ crcPc = "done" /\ crcBuf = CheckBytes /\ crcCut = 4
    /\ crcChain = crcWhole /\ crcFirst # crcWhole

(* The statements of a tick after the start block, after the stop block and
   after the dispatch. *)
AfterDispatch == {"sleepCheck", "tickEnd"} \cup SleepBranch
AfterStop  == {"gsmCheck", "gsmHandle", "gpsCheck", "smsHandle", "mqttHandle"}
                  \cup AfterDispatch
AfterStart == {"stopCheck", "stopFlag"} \cup StopBlock \cup AfterStop

(* C14: in every tick in which desired power is on and the modem is
   unpowered at line 175, the busy flags are clear, the start block is
   entered and begin() is called exactly once; and once begin() has
   returned true the state becomes Powered. *)
C14_StartRetried ==
    /\ [](pc = "startCheck" /\ StartWanted => NotBusy)
    /\ [][pc = "startCheck" /\ StartWanted => pc' = "startFlag"]_vars
    /\ [](evalSeen.start /\ pc \in AfterStart => Count("begin") = 1)
    /\ [](Count("begin") <= 1)
    /\ [][call = "begin" /\ call' = "none" /\ pc' = "startDone" =>
              gsmHasPower' /\ isStarting']_vars
    /\ [][pc = "startDone" /\ gsmHasPower /\ pc' # "startDone" =>
              gsmHasPower' /\ ~isStarting' /\ ~isStopping' /\ pc' = "stopCheck"]_vars

C14_Witness ==
    /\ pc = "startDone" /\ gsmHasPower /\ isStarting /\ gsmPower
    /\ Count("begin") = 1 /\ evalSeen.start

(* C15: if the state is Powered and desired power is off when line 190 is
   evaluated, then in that tick the session is stopped, then power is cut,
   the state is Off from the end of the stop block to the end of the tick,
   and no modem session, SMS or MQTT handling is called in the tick. *)
C15_StopInOneTick ==
    /\ evalSeen.stop =>
          Count("gsmHandle") = 0 /\ Count("smsHandle") = 0 /\ Count("mqttHandle") = 0
    /\ evalSeen.stop /\ pc \in AfterStop \cup {"readVoltage"} =>
          /\ ~gsmHasPower /\ ~isStarting /\ ~isStopping
          /\ \E i, j \in 1 .. Len(trace) :
                i < j /\ trace[i] = "stop" /\ trace[j] = "off"

C15_Witness ==
    /\ pc = "tickEnd" /\ evalSeen.stop /\ ~gsmHasPower
    /\ Count("stop") = 1 /\ Count("off") = 1

(* C16: in a tick the modem session's handleClient is called once if the
   state is Powered at line 201 and not at all otherwise; SMS handling is
   called only when, besides, no GPS fix is pending and isSmsEnabled is
   true, MQTT handling only when no GPS fix is pending and isMqttEnabled is
   true. *)
C16_Dispatch ==
    /\ pc \in AfterDispatch =>
          Count("gsmHandle") = (IF evalSeen.ready THEN 1 ELSE 0)
    /\ pc \in {"gsmCheck", "gsmHandle"} /\ call = "none" => Count("gsmHandle") = 0
    /\ call = "smsHandle" =>
          /\ gsmHasPower /\ ~isStarting /\ ~isStopping /\ evalSeen.ready
          /\ ~gpsPending /\ isSmsEnabled
    /\ call = "mqttHandle" =>
          /\ gsmHasPower /\ ~isStarting /\ ~isStopping /\ evalSeen.ready
          /\ ~gpsPending /\ isMqttEnabled

C16_Witness ==
    /\ call = "mqttHandle" /\ Count("gsmHandle") = 1 /\ Count("smsHandle") = 1
    /\ evalSeen.ready

(* C20: at the end of a tick gsmHasPower is true exactly when the last
   on()/off() call made was on(); inside a tick the two differ only between
   a power call and the assignment that follows it, and in the deep-sleep
   branch, where off() is not followed by an assignment. *)
C20_FlagFollowsRail ==
    /\ pc \in {"tickEnd", "readVoltage"} => (gsmHasPower <=> railOn)
    /\ gsmHasPower # railOn =>
          pc \in {"startPower", "startUnpower", "stopUnpower",
                  "wifiOff", "sleepYield", "sleep"}
    /\ pc \in {"startPower", "startUnpower", "stopUnpower"} => gsmHasPower # railOn

C20_Witness == pc = "sleep" /\ call = "sleep" /\ gsmHasPower /\ ~railOn

(* C17: a call of myDebugInfo with newline false that follows a call with
   newline false appends its text to the tail line of the log and leaves
   the number of lines as it is; every other call, the first one too, adds
   one tail line made of the elapsed seconds, ": " and the text. *)
C17_LogLines ==
    logArgs.n > 0 =>
        IF logArgs.n > 1 /\ ~logArgs.prev /\ ~logArgs.newline
        THEN /\ Len(logInfos) = Len(logOld)
             /\ Len(logOld) >= 1
             /\ \A i \in 1 .. Len(logOld) - 1 : logInfos[i] = logOld[i]
             /\ logInfos[Len(logOld)] = logOld[Len(logOld)] \o logArgs.info
        ELSE logInfos = Append(logOld, FormatD(logArgs.secs) \o <<":", " ">> \o logArgs.info)

C17_Witness ==
    /\ logArgs.n = 3 /\ ~logArgs.prev /\ ~logArgs.newline
    /\ Len(logInfos) = 2
    /\ logInfos[2] = <<"1", "0", ":", " ", "a", "o", "k">>

(* C18: MyDelay(d), d >= 0, returns at the first test that finds at least d
   milliseconds passed since entry, which happens; between two tests the
   web server is serviced and the watchdog fed; a wait with d > 0 makes at
   least one pass of the loop.  (With d < 0 the test of line 108 is true
   for every time passed but one.) *)
C18_DelayServes ==
    /\ [](dlyPc = "done" /\ dlyD >= 0 => dlyMillis - dlyM >= dlyD)
    /\ [][dlyPc = "check" /\ dlyD >= 0 /\ dlyMillis - dlyM >= dlyD
            => dlyPc' = "done"]_vars
    /\ [](dlyPc = "check" /\ dlyIter > 0 => dlyServed >= 1 /\ dlyFed >= 1)
    /\ [](dlyPc = "done" /\ dlyD > 0 => dlyIter >= 1)
    /\ <>(dlyPc = "done" \/ dlyD < 0)

C18_Witness == dlyPc = "done" /\ dlyD = 2 /\ dlyIter = 1 /\ dlyM = 5

====
